---------------------------- MODULE Spec2Model ----------------------------
(***************************************************************************)
(* The login-submission workflow of vue-login-demo.                        *)
(*                                                                         *)
(* Three LoginForm components exist: the minimal one (no validation, no    *)
(* loading flag, no token header), the basic one (validateForm checks that *)
(* both fields are filled, isLoading, X-CSRF-TOKEN header) and the rich    *)
(* one (per-field rules, isValid gate on the button, status-specific       *)
(* messages).  A component instance is one of the three for its lifetime.  *)
(*                                                                         *)
(* JavaScript runs each handler to its first await without interruption,   *)
(* so one action is one such segment: handleSubmit up to the await of      *)
(* axios.post (or to its return), and the continuation that runs when the  *)
(* request settles.  Field values are sequences of one-character strings;  *)
(* messages are strings.                                                   *)
(***************************************************************************)
EXTENDS Naturals, Sequences, FiniteSets, TLC

VARIABLES
    variant,    \* which LoginForm component this instance is
    csrfMeta,   \* whether the page holds <meta name="csrf-token">
    username,   \* data().username
    password,   \* data().password
    error,      \* data().error
    isLoading,  \* data().isLoading (absent, hence never true, in the minimal form)
    store,      \* the user held by the Vuex store (setUser)
    subs        \* one record per handleSubmit invocation, in order

vars == <<variant, csrfMeta, username, password, error, isLoading, store, subs>>

---------------------------------------------------------------------------
(* Bounds *)

\* handleSubmit invocations per behaviour
MaxSubmits == 2
\* longest username drawn
MaxNameLen == 4
\* passwords are every string of at most MaxTail characters, alone or
\* appended to a prefix one character short of the pattern's minimum
MaxTail == 2

---------------------------------------------------------------------------
(* Characters and strings *)

Letters == {"a"}
Digits == {"1"}
Symbols == {"!"}
PwChars == Letters \cup Digits \cup Symbols

RECURSIVE Rep(_, _)
Rep(c, n) == IF n = 0 THEN <<>> ELSE <<c>> \o Rep(c, n - 1)

RECURSIVE StringsUpTo(_, _)
StringsUpTo(chars, n) ==
    IF n = 0 THEN {<<>>}
    ELSE LET shorter == StringsUpTo(chars, n - 1)
         IN  shorter \cup {s \o <<c>> : s \in shorter, c \in chars}

---------------------------------------------------------------------------
(* The three components *)

Variants == {"minimal", "basic", "rich"}

\* the components that keep isLoading and send the X-CSRF-TOKEN header
Guarded == {"basic", "rich"}

NoUser == [id |-> 0]
Users == {[id |-> 1], [id |-> 2]}

---------------------------------------------------------------------------
(* Validation (rich form) *)

validationRules ==
    [username |-> [required |-> TRUE, minLength |-> 3,
                   pattern |-> FALSE, message |-> ""],
     password |-> [required |-> TRUE, minLength |-> 0,
                   pattern |-> TRUE,
                   message |-> "Password must be at least 8 characters and include letters and numbers"]]

\* (?=.*X): from the start, some character of class X follows any run of
\* characters (no field value holds a line terminator)
Lookahead(s, class) == \E i \in 1..Len(s) : s[i] \in class

\* the pattern without its digit lookahead
MatchesPattern_noDigit(s) ==
    /\ Lookahead(s, Letters)
    /\ Len(s) >= 8
    /\ \A i \in 1..Len(s) : s[i] \in Letters \cup Digits

\* /^(?=.*[A-Za-z])(?=.*\d)[A-Za-z\d]{8,}$/
MatchesPattern(s) ==
    /\ Lookahead(s, Letters)
    /\ Lookahead(s, Digits)
    /\ Len(s) >= 8
    /\ \A i \in 1..Len(s) : s[i] \in Letters \cup Digits

\* field.charAt(0).toUpperCase() + field.slice(1)
Capitalized(field) == IF field = "username" THEN "Username" ELSE "Password"

FieldValue(field) == IF field = "username" THEN username ELSE password

validateField(field) ==
    LET rules == validationRules[field]
        value == FieldValue(field)
    IN  IF rules.required /\ value = <<>>
        THEN Capitalized(field) \o " is required"
        ELSE IF rules.minLength # 0 /\ Len(value) < rules.minLength
        THEN Capitalized(field) \o " must be at least "
                 \o ToString(rules.minLength) \o " characters"
        ELSE IF rules.pattern /\ ~MatchesPattern(value)
        THEN rules.message
        ELSE ""

\* the gate with > for >=
isValid_strict == Len(username) > 3 /\ MatchesPattern(password)

\* computed isValid
isValid == Len(username) >= 3 /\ MatchesPattern(password)

Or(a, b) == IF a # "" THEN a ELSE b

\* validateForm without this.error = "" on its passing path
validateForm_keepsError ==
    CASE variant = "rich" ->
            LET usernameError == validateField("username")
                passwordError == validateField("password")
            IN  IF usernameError # "" \/ passwordError # ""
                THEN [ok |-> FALSE, error |-> Or(usernameError, passwordError)]
                ELSE [ok |-> TRUE, error |-> error]
      [] variant = "basic" ->
            IF username = <<>> \/ password = <<>>
            THEN [ok |-> FALSE, error |-> "Please fill in all fields"]
            ELSE [ok |-> TRUE, error |-> error]
      [] OTHER -> [ok |-> TRUE, error |-> error]

\* validateForm reporting passwordError || usernameError
validateForm_passwordFirst ==
    CASE variant = "rich" ->
            LET usernameError == validateField("username")
                passwordError == validateField("password")
            IN  IF usernameError # "" \/ passwordError # ""
                THEN [ok |-> FALSE, error |-> Or(passwordError, usernameError)]
                ELSE [ok |-> TRUE, error |-> ""]
      [] variant = "basic" ->
            IF username = <<>> \/ password = <<>>
            THEN [ok |-> FALSE, error |-> "Please fill in all fields"]
            ELSE [ok |-> TRUE, error |-> error]
      [] OTHER -> [ok |-> TRUE, error |-> error]

\* validateForm: [ok, error], error being the new value of this.error
validateForm ==
    CASE variant = "rich" ->
            LET usernameError == validateField("username")
                passwordError == validateField("password")
            IN  IF usernameError # "" \/ passwordError # ""
                THEN [ok |-> FALSE, error |-> Or(usernameError, passwordError)]
                ELSE [ok |-> TRUE, error |-> ""]
      [] variant = "basic" ->
            IF username = <<>> \/ password = <<>>
            THEN [ok |-> FALSE, error |-> "Please fill in all fields"]
            ELSE [ok |-> TRUE, error |-> error]
      [] OTHER -> [ok |-> TRUE, error |-> error]

---------------------------------------------------------------------------
(* The authentication endpoint's answers *)

NoMessage == ""

\* what axios.post settles with: it resolves on a 2xx answer and rejects on
\* any other status (error.response set) or on a transport failure
\* (error.response undefined)
Resolved(success, user) ==
    [settled |-> "resolve", hasResponse |-> TRUE, status |-> 200,
     message |-> NoMessage, success |-> success, user |-> user]

Rejected(status, message) ==
    [settled |-> "reject", hasResponse |-> TRUE, status |-> status,
     message |-> message, success |-> FALSE, user |-> NoUser]

NetworkFailure ==
    [settled |-> "reject", hasResponse |-> FALSE, status |-> 0,
     message |-> NoMessage, success |-> FALSE, user |-> NoUser]

\* the TypeError of reading .content of null: an error with no response
TypeError ==
    [settled |-> "throw", hasResponse |-> FALSE, status |-> 0,
     message |-> NoMessage, success |-> FALSE, user |-> NoUser]

NoResponse ==
    [settled |-> "none", hasResponse |-> FALSE, status |-> 0,
     message |-> NoMessage, success |-> FALSE, user |-> NoUser]

Statuses == {401, 429, 500}
Messages == {NoMessage, "Account locked"}

Responses ==
    {Resolved(TRUE, u) : u \in Users}
        \cup {Resolved(FALSE, NoUser)}
        \cup {Rejected(st, m) : st \in Statuses, m \in Messages}
        \cup {NetworkFailure}

---------------------------------------------------------------------------
(* handleSubmit *)

GenericMessage == "Authentication failed. Please try again."

\* the lookup written with optional chaining, which never throws
CsrfLookupThrows_never == FALSE

\* document.querySelector('meta[name="csrf-token"]').content throws when
\* the page has no such tag
CsrfLookupThrows == ~csrfMeta

\* the catch block: the new value of this.error for the caught error e
CatchMessage(e) ==
    LET message == IF e.hasResponse THEN e.message ELSE NoMessage
        status == IF e.hasResponse THEN e.status ELSE 0
    IN  CASE variant = "rich" ->
                \* a || b === 401 ? x : c === 429 ? y : z
                \* parses as (a || (b === 401)) ? x : ((c === 429) ? y : z)
                IF message # NoMessage \/ status = 401
                THEN "Invalid username or password"
                ELSE IF status = 429
                THEN "Too many attempts. Please try again later"
                ELSE GenericMessage
          [] variant = "basic" ->
                IF message # NoMessage THEN message ELSE GenericMessage
          [] OTHER -> "Something went wrong. Please try again."

\* the try block without its test of response.data.success
Effects_ignoresFlag(response) ==
    <<[op |-> "commit", name |-> "setUser", arg |-> response.user],
      [op |-> "emit", name |-> "success", arg |-> "Login successful!"]>>

\* the try block after the await: what a resolved response makes the
\* component do, in order
Effects(response) ==
    IF response.success
    THEN <<[op |-> "commit", name |-> "setUser", arg |-> response.user],
           [op |-> "emit", name |-> "success", arg |-> "Login successful!"]>>
    ELSE <<>>

\* the finally block: the new value of isLoading, loading being its value
\* when the block is entered
Finally_omitted(loading) == loading

Finally(loading) == IF variant \in Guarded THEN FALSE ELSE loading

\* a handleSubmit invocation: how far it got (path), what the request
\* settled with (resp), what it did to the store and the parent (effects),
\* and this.error and this.isLoading as its last segment left them
Sub(path, resp, effects, err, loading) ==
    [path |-> path, resp |-> resp, effects |-> effects,
     err |-> err, loading |-> loading]

\* handleSubmit, to the await of axios.post or to its return
handleSubmit ==
    /\ Len(subs) < MaxSubmits
    /\ LET v == validateForm
       IN  IF ~v.ok
           THEN /\ error' = v.error
                /\ isLoading' = isLoading
                /\ subs' = Append(subs,
                       Sub("invalid", NoResponse, <<>>, v.error, isLoading))
           ELSE IF variant \in Guarded /\ CsrfLookupThrows
           THEN \* isLoading = true; the lookup throws; catch; finally
                /\ error' = CatchMessage(TypeError)
                /\ isLoading' = Finally(TRUE)
                /\ subs' = Append(subs,
                       Sub("threw", NoResponse, <<>>,
                           CatchMessage(TypeError), Finally(TRUE)))
           ELSE /\ error' = v.error
                /\ isLoading' = (variant \in Guarded)
                /\ subs' = Append(subs,
                       Sub("pending", NoResponse, <<>>, v.error,
                           variant \in Guarded))
    /\ UNCHANGED <<variant, csrfMeta, username, password, store>>

\* handleSubmit from the await on, once the request of invocation i has
\* settled with resp
Settle(i, resp) ==
    /\ subs[i].path = "pending"
    /\ LET resolved == resp.settled = "resolve"
           effects == IF resolved THEN Effects(resp) ELSE <<>>
           newError == IF resolved THEN error ELSE CatchMessage(resp)
           newLoading == Finally(isLoading)
           path == IF ~resolved THEN "failed"
                   ELSE IF effects # <<>> THEN "success" ELSE "ignored"
       IN  /\ error' = newError
           /\ isLoading' = newLoading
           /\ store' = IF effects # <<>> THEN effects[1].arg ELSE store
           /\ subs' = [subs EXCEPT
                          ![i] = Sub(path, resp, effects, newError, newLoading)]
    /\ UNCHANGED <<variant, csrfMeta, username, password>>

---------------------------------------------------------------------------
(* The template: inputs and the submit button *)

\* the binding without isLoading
SubmitDisabled_ignoresLoading == variant = "rich" /\ ~isValid

\* the button's :disabled binding
SubmitDisabled ==
    CASE variant = "rich" -> isLoading \/ ~isValid
      [] variant = "basic" -> isLoading
      [] OTHER -> FALSE

\* the browser's own constraint validation, which precedes the submit
\* event unless the form says novalidate: the basic form's inputs are
\* required and its password input carries the pattern
ConstraintsSatisfied ==
    CASE variant = "basic" ->
            username # <<>> /\ password # <<>> /\ MatchesPattern(password)
      [] OTHER -> TRUE

\* the rich form's fields are disabled while isLoading
InputDisabled == variant = "rich" /\ isLoading

\* v-model on the username input (the FormField's update:modelValue)
UpdateUsername(value) ==
    /\ ~InputDisabled
    /\ username' = value
    /\ UNCHANGED <<variant, csrfMeta, password, error, isLoading, store, subs>>

\* v-model on the password input
UpdatePassword(value) ==
    /\ ~InputDisabled
    /\ password' = value
    /\ UNCHANGED <<variant, csrfMeta, username, error, isLoading, store, subs>>

\* a click on the button, or Enter in a field: the browser fires submit
\* only when the button is enabled and the constraints hold
ClickSubmit ==
    /\ ~SubmitDisabled
    /\ ConstraintsSatisfied
    /\ handleSubmit

\* the submit event dispatched on the form by a script
DispatchSubmit == handleSubmit

RequestSettles == \E i \in 1..Len(subs) : \E resp \in Responses : Settle(i, resp)

---------------------------------------------------------------------------
(* Field values *)

Usernames == {Rep("a", n) : n \in 0..MaxNameLen}

\* one character short of the pattern's {8,}
Prefixes == {Rep(c, 7) : c \in Letters \cup Digits}

Passwords ==
    LET tails == StringsUpTo(PwChars, MaxTail)
    IN  tails \cup {p \o t : p \in Prefixes, t \in tails}

\* what the user types in the behaviours with several submissions
TypedUsernames == {Rep("a", 0), Rep("a", 2), Rep("a", 3)}
TypedPasswords == {Rep("a", 0), Rep("a", 8), Rep("a", 7) \o Rep("1", 1)}

EditUsername == \E value \in TypedUsernames : UpdateUsername(value)
EditPassword == \E value \in TypedPasswords : UpdatePassword(value)

---------------------------------------------------------------------------
(* Specifications *)

\* data(): the component as mounted
Mounted ==
    /\ variant \in Variants
    /\ csrfMeta \in BOOLEAN
    /\ error = ""
    /\ isLoading = FALSE
    /\ store = NoUser
    /\ subs = <<>>

Init ==
    /\ Mounted
    /\ username = <<>>
    /\ password = <<>>

\* the form in a browser: the user edits, clicks, and requests settle
Next ==
    \/ EditUsername
    \/ EditPassword
    \/ ClickSubmit
    \/ RequestSettles

Spec == Init /\ [][Next]_vars

\* the form driven by a script or a test: submit events arrive whatever
\* the button shows
NextScripted ==
    \/ EditUsername
    \/ EditPassword
    \/ DispatchSubmit
    \/ RequestSettles

SpecScripted == Init /\ [][NextScripted]_vars

\* handleSubmit on a form holding any field values
InitFields ==
    /\ Mounted
    /\ username \in Usernames
    /\ password \in Passwords

NextFields == DispatchSubmit

SpecFields == InitFields /\ [][NextFields]_vars

---------------------------------------------------------------------------
(* Properties *)

Invocations == 1..Len(subs)

\* the invocations whose request is in flight
Pending == {i \in Invocations : subs[i].path = "pending"}

\* the invocations whose request has settled
Settled == {i \in Invocations : subs[i].path \in {"success", "ignored", "failed"}}

SuccessEffects(user) ==
    <<[op |-> "commit", name |-> "setUser", arg |-> user],
      [op |-> "emit", name |-> "success", arg |-> "Login successful!"]>>

\* the message the failure rule gives an error: (a) the body's message,
\* else (b) the status's message, else (c) the generic one
MessageByPriority(e) ==
    IF e.hasResponse /\ e.message # NoMessage THEN e.message
    ELSE IF e.hasResponse /\ e.status = 401 THEN "Invalid username or password"
    ELSE IF e.hasResponse /\ e.status = 429
    THEN "Too many attempts. Please try again later"
    ELSE "Authentication failed. Please try again."

\* C1: in the rich form, every failed request leaves as form error the
\* body's message if there is one, else the message of status 401 or 429,
\* else the generic message.
C1_ErrorByPriority ==
    variant = "rich" =>
        \A i \in Invocations :
            subs[i].path = "failed" => subs[i].err = MessageByPriority(subs[i].resp)

\* C2: in the forms that keep isLoading, every invocation that set it has
\* left it false once it is over, whatever path it took (request resolved
\* with or without the flag, rejected with or without a response, or the
\* lookup threw before the request was sent), and isLoading is never true
\* when no invocation is still waiting for its request.
C2_LoadingCleared ==
    variant \in Guarded =>
        /\ \A i \in Invocations :
               subs[i].path \in {"success", "ignored", "failed", "threw"}
                   => subs[i].loading = FALSE
        /\ isLoading => Pending # {}

\* a request failed without a response in a form that keeps isLoading, and
\* the button is enabled again
C2_Witness ==
    /\ variant \in Guarded
    /\ ~isLoading
    /\ \E i \in Invocations :
           subs[i].path = "failed" /\ subs[i].resp = NetworkFailure

C4_CommitOnlyOnSuccess ==
    /\ \A i \in Invocations :
           IF subs[i].resp.settled = "resolve" /\ subs[i].resp.success
           THEN subs[i].effects = SuccessEffects(subs[i].resp.user)
           ELSE subs[i].effects = <<>>
    /\ (\A i \in Invocations : subs[i].path # "success") => store = NoUser
    /\ store # NoUser =>
           \E i \in Invocations :
               subs[i].path = "success" /\ subs[i].resp.user = store

\* one invocation failed validation, one succeeded and wrote the store
C4_Witness ==
    /\ \E i \in Invocations : subs[i].path = "invalid"
    /\ \E i \in Invocations :
           /\ subs[i].path = "success"
           /\ subs[i].resp.user = [id |-> 1]
           /\ store = [id |-> 1]

\* C5 as stated: with the username or the password empty, submitting
\* leaves "Username is required" or "Password is required" as the form
\* error and sends no request.
C5_RequiredError ==
    (variant \in Guarded /\ (username = <<>> \/ password = <<>>)) =>
        \A i \in Invocations :
            /\ subs[i].path = "invalid"
            /\ subs[i].err \in {"Username is required", "Password is required"}

\* C5 amended: with the username or the password empty, submitting sends no
\* request; the rich form's error is "Username is required" for an empty
\* username, the username's length message for a username of one or two
\* characters, and "Password is required" otherwise; the basic form's is
\* "Please fill in all fields".
C5_EmptyFieldRejected ==
    (variant \in Guarded /\ (username = <<>> \/ password = <<>>)) =>
        \A i \in Invocations :
            /\ subs[i].path = "invalid"
            /\ subs[i].err =
                   IF variant = "basic" THEN "Please fill in all fields"
                   ELSE IF username = <<>> THEN "Username is required"
                   ELSE IF Len(username) < 3
                   THEN "Username must be at least 3 characters"
                   ELSE "Password is required"

\* the rich form was submitted with a two-character username and no password
C5_Witness ==
    /\ variant = "rich"
    /\ Len(username) = 2
    /\ password = <<>>
    /\ subs # <<>>
    /\ subs[1].err = "Username must be at least 3 characters"

\* a password with fewer than 8 characters, or no letter, or no digit
FailsPattern(p) ==
    \/ Len(p) < 8
    \/ \A i \in 1..Len(p) : p[i] \notin Letters
    \/ \A i \in 1..Len(p) : p[i] \notin Digits

PasswordFormatMessage ==
    "Password must be at least 8 characters and include letters and numbers"

\* C6 as stated: in the rich form, a password that fails the pattern makes
\* submitting leave the password-format message as the form error and send
\* no request.
C6_FormatError ==
    (variant = "rich" /\ FailsPattern(password)) =>
        \A i \in Invocations :
            /\ subs[i].path = "invalid"
            /\ subs[i].err = PasswordFormatMessage

\* C6 amended: in the rich form, a password that fails the pattern makes
\* submitting send no request; the form error is the password-format
\* message when the password is not empty and the username has at least 3
\* characters.
C6_FormatErrorAfterOtherRules ==
    (variant = "rich" /\ FailsPattern(password)) =>
        \A i \in Invocations :
            /\ subs[i].path = "invalid"
            /\ (password # <<>> /\ Len(username) >= 3)
                   => subs[i].err = PasswordFormatMessage

\* the rich form was submitted with a good username and eight letters
C6_Witness ==
    /\ variant = "rich"
    /\ Len(username) = 3
    /\ password = Rep("a", 8)
    /\ subs # <<>>
    /\ subs[1].path = "invalid"
    /\ subs[1].err = PasswordFormatMessage

\* C7: an invocation whose request has settled has emitted the success
\* event or left a form error.
C7_SuccessOrFailure ==
    \A i \in Settled : subs[i].effects # <<>> \/ subs[i].err # ""

\* C8 as stated: in the rich form isValid holds exactly when validateField
\* returns "" for both fields, and a submission of a form whose button is
\* enabled passes validateForm and sends its request.
C8_GateReachesRequest ==
    variant = "rich" =>
        /\ isValid <=> (validateField("username") = ""
                            /\ validateField("password") = "")
        /\ isValid => \A i \in Invocations : subs[i].path = "pending"

\* C8 amended: in the rich form isValid holds exactly when validateField
\* returns "" for both fields, and a submission of a form whose button is
\* enabled passes validateForm; it sends its request when the page has the
\* csrf-token meta tag.
C8_GateAgreesWithValidation ==
    variant = "rich" =>
        /\ isValid <=> (validateField("username") = ""
                            /\ validateField("password") = "")
        /\ isValid =>
               \A i \in Invocations :
                   /\ subs[i].path # "invalid"
                   /\ csrfMeta => subs[i].path = "pending"

\* the rich form was submitted with a three-character username and a
\* password of exactly eight characters, and its request is in flight
C8_Witness ==
    /\ variant = "rich"
    /\ Len(username) = 3
    /\ Len(password) = 8
    /\ isValid
    /\ subs # <<>>
    /\ subs[1].path = "pending"

\* C9: in the forms that send X-CSRF-TOKEN, on a page without the meta tag
\* no request is ever sent: an invocation that passes validation ends with
\* the generic message as form error, isLoading false and nothing committed
\* or emitted, and the store stays unwritten.
C9_NoRequestWithoutToken ==
    (variant \in Guarded /\ ~csrfMeta) =>
        /\ store = NoUser
        /\ \A i \in Invocations :
               /\ subs[i].path \in {"invalid", "threw"}
               /\ subs[i].path = "threw" =>
                      /\ subs[i].err = "Authentication failed. Please try again."
                      /\ subs[i].loading = FALSE
                      /\ subs[i].effects = <<>>

\* the rich form was submitted with valid fields on a page without the tag
C9_Witness ==
    /\ variant = "rich"
    /\ ~csrfMeta
    /\ isValid
    /\ subs # <<>>
    /\ subs[Len(subs)].path = "threw"
    /\ error = "Authentication failed. Please try again."
    /\ ~isLoading

\* C10: in the rich form driven through the button, the form error is ""
\* when an invocation commits setUser and emits the success event.
C10_NoErrorAtSuccess ==
    variant = "rich" =>
        \A i \in Invocations : subs[i].path = "success" => subs[i].err = ""

\* a failed attempt left a form error and the next attempt succeeded
C10_Witness ==
    /\ variant = "rich"
    /\ Len(subs) = 2
    /\ subs[1].path = "failed"
    /\ subs[1].err # ""
    /\ subs[2].path = "success"
    /\ error = ""

===========================================================================
